---- MODULE Spec2Model ----
(***************************************************************************)
(* Model of the two ROS nodes of Rover_2023_2024:                          *)
(*   rover2_status/system_statuses_node.py  (SystemStatuses)               *)
(*   rover2_control/iris_controller.py      (IrisController)               *)
(* Wall-clock time is an integer number of seconds; now is the clock value  *)
(* read by the latest timer callback, which reads one value for the whole  *)
(* callback. Subscription callbacks do not read the clock.                 *)
(***************************************************************************)
EXTENDS Integers, Sequences, FiniteSets, TLC

\* ------------------------------------------------------------------ bounds
MaxTime == 12           \* no timer callback starts after this clock value
MaxSubscriptions == 3   \* cap on frsky subscriptions, i.e. on status pulls
MaxMessages == 2        \* cap on asynchronous messages delivered to the status node

\* ------------------------------------------------- constants of the source
IRIS_UPDATE_PERIOD == 5      \* 1.0 / MAX_IRIS_UPDATE_HERTZ   (0.2 Hz)
JETSON_UPDATE_PERIOD == 5    \* 1.0 / MAX_JETSON_UPDATE_HERTZ (0.2 Hz)
GPU_TEMP_FAILED == -1        \* jetson_gpu_temp when the sensors call fails
HEADING_UNKNOWN == -1        \* gps_heading when true_track is None

\* iris_controller.py
SBUS_MAX == 1811
SBUS_MID == 991
SBUS_MIN == 172
SBUS_RANGE == 820
SBUS_DEADZONE == 5
LEFT_STICK_Y_AXIS == 0
RIGHT_STICK_Y_AXIS == 1
SE_SWITCH == 12
SWITCH_SF == 13                \* the register named S-F switch in MODBUS_REGISTERS
VOLTAGE_24V == 16
NUM_REGISTERS == 20            \* len(MODBUS_REGISTERS)
IRIS_LAST_SEEN_TIMEOUT == 1    \* seconds
IGNORE_CONTROL == SWITCH_SF    \* REGISTER_STATE_MAPPING
DRIVE_VS_ARM == SE_SWITCH

\* ------------------------------------------------ inputs of the iris node
\* seconds between two consecutive timer callbacks of the iris node
IrisTimerGaps == {1, 2}

\* a register vector as read_registers(0, 20) returns it; every register not named
\* holds rest
RegisterVector(left, right, se, sf, rest) ==
    [i \in 1..NUM_REGISTERS |->
        CASE i = LEFT_STICK_Y_AXIS + 1 -> left
          [] i = RIGHT_STICK_Y_AXIS + 1 -> right
          [] i = SE_SWITCH + 1 -> se
          [] i = SWITCH_SF + 1 -> sf
          [] OTHER -> rest]

RegisterInputs ==
    { RegisterVector(l, r, se, o[1], o[2]) :
        l \in {0, SBUS_MID - SBUS_RANGE, SBUS_MID + SBUS_RANGE},
        r \in {0, SBUS_MID},
        se \in {SBUS_MIN + SBUS_DEADZONE, SBUS_MIN + SBUS_DEADZONE + 1, SBUS_MID - 1,
                SBUS_MID, SBUS_MID + SBUS_DEADZONE + 1},
        o \in {<<SBUS_MID, 0>>, <<SBUS_MID + 1, 24>>} }
    \cup
    \* both axes at the ends of the calibrated range, in drive mode
    { RegisterVector(l, r, SBUS_MIN + SBUS_DEADZONE, SBUS_MID, 0) :
        l \in {SBUS_MIN, SBUS_MAX}, r \in {SBUS_MIN, SBUS_MAX} }

\* the outcome of iris.read_registers: the vector read, or an exception
ReadResults == { [ok |-> FALSE, regs |-> << >>] }
               \cup { [ok |-> TRUE, regs |-> v] : v \in RegisterInputs }

\* ------------------------------------------------ inputs of the status node
\* seconds between two consecutive timer callbacks (period 1/~hertz, plus delay)
TimerGaps == {1, 5, 6}

\* what one pull reads from the host: os.path.exists() of the four camera device
\* paths, and the psutil / statvfs readings cpu, ram, emmc, nvme_ssd (percent)
\* the host as the constructor's pull finds it
InitialHost ==
    [camera_zed |-> FALSE, camera_undercarriage |-> FALSE,
     camera_chassis |-> FALSE, camera_main_navigation |-> FALSE,
     jetson_cpu |-> 10, jetson_ram |-> 50, jetson_emmc |-> 40, jetson_nvme_ssd |-> 1]

HostInputs ==
    { InitialHost,
      [camera_zed |-> FALSE, camera_undercarriage |-> FALSE,
       camera_chassis |-> FALSE, camera_main_navigation |-> TRUE,
       jetson_cpu |-> 10, jetson_ram |-> 50, jetson_emmc |-> 40, jetson_nvme_ssd |-> 1],
      [camera_zed |-> FALSE, camera_undercarriage |-> FALSE,
       camera_chassis |-> FALSE, camera_main_navigation |-> FALSE,
       jetson_cpu |-> 10, jetson_ram |-> 50, jetson_emmc |-> 40, jetson_nvme_ssd |-> 2] }

\* voltage_24v carried by an IrisStatusMessage
VoltageInputs == {23, 24}

\* the DriveStatusMessage of each bogie: (first_motor_connected, second_motor_connected)
LeftStatusInputs == { [first_motor_connected |-> TRUE, second_motor_connected |-> FALSE] }
RightStatusInputs == { [first_motor_connected |-> FALSE, second_motor_connected |-> TRUE] }
RearStatusInputs == { [first_motor_connected |-> TRUE, second_motor_connected |-> TRUE] }

\* a field of a parsed sentence: <<v>> when it holds a number, << >> when it is
\* None or empty
Field(v) == <<v>>
NoneVal == << >>

\* pynmea2.parse(data.sentence): a parse error, or the parsed attributes
GpsSentences ==
    { [parse |-> "error"],
      [parse |-> "ok", sentence_type |-> "GGA", gps_qual |-> Field(1),
       num_sats |-> Field(7), horizontal_dil |-> Field(1)],
      [parse |-> "ok", sentence_type |-> "VTG", spd_over_grnd_kmph |-> NoneVal,
       true_track |-> NoneVal] }

\* controller_present of a DriveCommandMessage
ControllerInputs == {TRUE}

Categories == {"battery_status", "camera_status", "jetson_status", "frsky_status",
               "wheel_status", "gps_status", "misc_status"}

VARIABLES
    now,                        \* time()
    op,                         \* what ran last: "init", "main_loop", "main_loop_raise", "callback"
    \* ---- SystemStatuses
    status_alive,               \* the status process has not died of an uncaught exception
    manual_update_requested,
    battery_message, camera_msg, jetson_msg, FrSky_msg, wheel_msg, GPS_msg, misc_msg,
    previous,                   \* the previous_* fields, by category
    last_iris_message_sent, last_jetson_message_sent,
    frsky_subscriptions,        \* subscriptions created by __set_frsky_controller_connection_status
    status_out,                 \* messages published by the latest main_loop, in order
    delivered,                  \* asynchronous messages delivered so far
    last_written,               \* per field written by callbacks: the latest value written
    last_published,             \* per category: the record carried by its latest publish
    \* ---- IrisController
    iris_alive,                 \* destroy_node() has not been called
    registers,
    iris_connected,
    iris_last_seen_time,
    drive_out,                  \* DriveCommandMessages published by the latest main_loop
    iris_status_out,            \* IrisStatusMessages published by the latest main_loop
    arm_printed,                \* the latest main_loop printed "Arm"
    iris_error,                 \* the latest main_loop caught an exception
    read_result                 \* what iris.read_registers did in the latest main_loop

status_vars == <<status_alive, manual_update_requested, battery_message, camera_msg,
                 jetson_msg, FrSky_msg, wheel_msg, GPS_msg, misc_msg, previous,
                 last_iris_message_sent, last_jetson_message_sent, frsky_subscriptions,
                 status_out, delivered, last_written, last_published>>

iris_vars == <<iris_alive, registers, iris_connected, iris_last_seen_time, drive_out,
               iris_status_out, arm_printed, iris_error, read_result>>

\* ------------------------------------------------ message default values
BatteryStatusMessage == [battery_voltage |-> 0]
CameraStatuses == [camera_zed |-> FALSE, camera_undercarriage |-> FALSE,
                   camera_chassis |-> FALSE, camera_main_navigation |-> FALSE]
WheelStatuses == [front_left |-> FALSE, middle_left |-> FALSE, rear_left |-> FALSE,
                  front_right |-> FALSE, middle_right |-> FALSE, rear_right |-> FALSE]
FrSkyStatus == [frsky_controller_connection_status |-> FALSE]
GPSInfo == [gps_connected |-> FALSE, gps_fix |-> FALSE, num_satellites |-> 0,
            horizontal_dilution |-> 0, kmph |-> 0, gps_heading |-> 0]
JetsonInfo == [jetson_cpu |-> 0, jetson_ram |-> 0, jetson_emmc |-> 0,
               jetson_nvme_ssd |-> 0, jetson_gpu_temp |-> 0]
MiscStatuses == [arm_connection_status |-> FALSE,
                 arm_end_effector_connection_statuses |-> FALSE,
                 chassis_pan_tilt_connection_status |-> FALSE,
                 sample_containment_connection_status |-> FALSE,
                 tower_connection_status |-> FALSE]

\* ------------------------------------------------ __pull_new_message_values
\* the five __set_*_connection_status methods that write misc_msg
set_misc_statuses(m) ==
    [m EXCEPT !.arm_connection_status = FALSE,
              !.arm_end_effector_connection_statuses = FALSE,
              !.sample_containment_connection_status = FALSE,
              !.tower_connection_status = FALSE,
              !.chassis_pan_tilt_connection_status = FALSE]

set_cameras(c, paths) ==
    [c EXCEPT !.camera_zed = paths.camera_zed,
              !.camera_undercarriage = paths.camera_undercarriage,
              !.camera_chassis = paths.camera_chassis,
              !.camera_main_navigation = paths.camera_main_navigation]

\* cpu, ram, emmc and nvme are written before the sensors call
set_jetson_usage(j, m) ==
    [j EXCEPT !.jetson_cpu = m.jetson_cpu, !.jetson_ram = m.jetson_ram,
              !.jetson_emmc = m.jetson_emmc, !.jetson_nvme_ssd = m.jetson_nvme_ssd]

\* subprocess.CalledProcessError: the temperature falls back to -1.0
set_jetson_temp_failed(j) == [j EXCEPT !.jetson_gpu_temp = GPU_TEMP_FAILED]

\* ------------------------------------------------ __set_previous_*_values
Snapshot(bat, cam, jet, frsky, wheel, gps, misc) ==
    [battery_status |-> bat, camera_status |-> cam, jetson_status |-> jet,
     frsky_status |-> frsky, wheel_status |-> wheel, gps_status |-> gps,
     misc_status |-> misc]

\* ------------------------------------------------ the gates of main_loop
battery_changed(msg, prev, manual) ==
    msg.battery_voltage # prev.battery_voltage \/ manual

\* mutant: the comparison made inclusive
iris_rate_elapsed_inclusive(t, last) == (t - last) >= IRIS_UPDATE_PERIOD

iris_rate_elapsed(t, last) == (t - last) > IRIS_UPDATE_PERIOD

\* mutant: the comparison of camera_main_navigation left out
camera_changed_three_fields(msg, prev, manual) ==
    \/ msg.camera_zed # prev.camera_zed
    \/ msg.camera_undercarriage # prev.camera_undercarriage
    \/ msg.camera_chassis # prev.camera_chassis
    \/ manual

camera_changed(msg, prev, manual) ==
    \/ msg.camera_zed # prev.camera_zed
    \/ msg.camera_undercarriage # prev.camera_undercarriage
    \/ msg.camera_chassis # prev.camera_chassis
    \/ msg.camera_main_navigation # prev.camera_main_navigation
    \/ manual

jetson_changed(msg, prev, manual) ==
    \/ msg.jetson_cpu # prev.jetson_cpu
    \/ msg.jetson_ram # prev.jetson_ram
    \/ msg.jetson_emmc # prev.jetson_emmc
    \/ msg.jetson_nvme_ssd # prev.jetson_nvme_ssd
    \/ msg.jetson_gpu_temp # prev.jetson_gpu_temp
    \/ manual

\* mutant: the elapsed time compared with MAX_JETSON_UPDATE_HERTZ (0.2) instead of
\* its inverse; a whole number of seconds exceeds 0.2 iff it exceeds 0
jetson_rate_elapsed_hertz(t, last) == (t - last) > 0

jetson_rate_elapsed(t, last) == (t - last) > JETSON_UPDATE_PERIOD

frsky_changed(msg, prev, manual) ==
    \/ msg.frsky_controller_connection_status # prev.frsky_controller_connection_status
    \/ manual

wheel_changed(msg, prev, manual) ==
    \/ msg.front_left # prev.front_left
    \/ msg.middle_left # prev.middle_left
    \/ msg.rear_left # prev.rear_left
    \/ msg.front_right # prev.front_right
    \/ msg.middle_right # prev.middle_right
    \/ msg.rear_right # prev.rear_right
    \/ manual

\* the GPS condition does not read manual_update_requested
gps_changed(msg, prev, manual) ==
    \/ msg.gps_connected # prev.gps_connected
    \/ msg.gps_fix # prev.gps_fix
    \/ msg.num_satellites # prev.num_satellites
    \/ msg.horizontal_dilution # prev.horizontal_dilution
    \/ msg.kmph # prev.kmph
    \/ msg.gps_heading # prev.gps_heading

misc_changed(msg, prev, manual) ==
    \/ msg.arm_connection_status # prev.arm_connection_status
    \/ msg.arm_end_effector_connection_statuses # prev.arm_end_effector_connection_statuses
    \/ msg.chassis_pan_tilt_connection_status # prev.chassis_pan_tilt_connection_status
    \/ msg.sample_containment_connection_status # prev.sample_containment_connection_status
    \/ msg.tower_connection_status # prev.tower_connection_status
    \/ manual

\* one gate of main_loop: the message it publishes, if any
Gate(fires, c, m) == IF fires THEN <<[topic |-> c, msg |-> m]>> ELSE << >>

\* the messages main_loop publishes, in the order of its gates (lines 348-423)
Publications(bat, cam, jet, frsky, wheel, gps, misc, prev, manual, t, lastIris, lastJetson) ==
    Gate(battery_changed(bat, prev.battery_status, manual) /\ iris_rate_elapsed(t, lastIris),
         "battery_status", bat)
    \o Gate(camera_changed(cam, prev.camera_status, manual), "camera_status", cam)
    \o Gate(jetson_changed(jet, prev.jetson_status, manual)
               /\ jetson_rate_elapsed(t, lastJetson),
            "jetson_status", jet)
    \o Gate(frsky_changed(frsky, prev.frsky_status, manual), "frsky_status", frsky)
    \o Gate(wheel_changed(wheel, prev.wheel_status, manual), "wheel_status", wheel)
    \o Gate(gps_changed(gps, prev.gps_status, manual), "gps_status", gps)
    \o Gate(misc_changed(misc, prev.misc_status, manual), "misc_status", misc)

Topics(out) == { out[i].topic : i \in DOMAIN out }
Count(out, c) == Cardinality({ i \in DOMAIN out : out[i].topic = c })

\* mutant: a gate that fires calls __update_all_previous_values
set_previous_values_all(prev, recs, out) == IF out # << >> THEN recs ELSE prev

\* snapshots written by the __set_previous_*_values calls of the gates that fired
set_previous_values(prev, recs, out) ==
    [c \in Categories |-> IF c \in Topics(out) THEN recs[c] ELSE prev[c]]

\* mutant: one publish time shared by the gates
set_last_sent_shared(last, c, out, t) == IF out # << >> THEN t ELSE last

\* last_iris_message_sent / last_jetson_message_sent after the gates
set_last_sent(last, c, out, t) == IF c \in Topics(out) THEN t ELSE last

\* lines 425-426
clear_manual_update(manual) == IF manual THEN FALSE ELSE manual

\* ------------------------------------------------ __set_gps_info
\* int(x) / float(x) raise on None
Unparsable(x) == x = NoneVal

\* lines 175-191: the GPS record after the fields of a parsed sentence are
\* assigned, and whether int() / float() raised
set_gps_fields(g1, data) ==
    IF data.sentence_type = "GGA" THEN
         IF Unparsable(data.gps_qual) THEN [msg |-> g1, raised |-> TRUE]
         ELSE LET g2 == [g1 EXCEPT !.gps_fix = (data.gps_qual[1] # 0)]
              IN IF Unparsable(data.num_sats) THEN [msg |-> g2, raised |-> TRUE]
                 ELSE LET g3 == [g2 EXCEPT !.num_satellites = data.num_sats[1]]
                      IN IF Unparsable(data.horizontal_dil)
                         THEN [msg |-> g3, raised |-> TRUE]
                         ELSE [msg |-> [g3 EXCEPT !.horizontal_dilution =
                                                     data.horizontal_dil[1]],
                               raised |-> FALSE]
    ELSE IF data.sentence_type = "VTG" THEN
         LET g2 == IF Unparsable(data.spd_over_grnd_kmph) THEN g1
                   ELSE [g1 EXCEPT !.kmph = data.spd_over_grnd_kmph[1]]
         IN [msg |-> [g2 EXCEPT !.gps_heading =
                         IF data.true_track # NoneVal THEN data.true_track[1]
                         ELSE HEADING_UNKNOWN],
             raised |-> FALSE]
    ELSE [msg |-> g1, raised |-> FALSE]

\* mutant: gps_connected assigned only after the sentence has parsed
set_gps_info_parse_first(g, data) ==
    IF data.parse = "error" THEN [msg |-> g, raised |-> FALSE]
    ELSE set_gps_fields([g EXCEPT !.gps_connected = TRUE], data)

\* mutant: a sentence that does not parse marks the GPS as not connected
set_gps_info_error_disconnects(g, data) ==
    IF data.parse = "error"
    THEN [msg |-> [g EXCEPT !.gps_connected = FALSE], raised |-> FALSE]
    ELSE set_gps_fields([g EXCEPT !.gps_connected = TRUE], data)

\* the GPS record after the callback, and whether the callback raised
set_gps_info(g, data) ==
    LET g1 == [g EXCEPT !.gps_connected = TRUE]
    IN IF data.parse = "error" THEN [msg |-> g1, raised |-> FALSE]
       ELSE set_gps_fields(g1, data)

\* ------------------------------------------------ what callbacks wrote, what was published
\* the record fields that subscription callbacks assign
AsyncFields == {"battery_voltage", "frsky_controller_connection_status", "front_left",
                "middle_left", "rear_left", "front_right", "middle_right", "rear_right",
                "gps_connected"}

\* the fields named in ws now hold the values of vs
Written(w, ws, vs) ==
    [f \in AsyncFields |-> IF \E i \in DOMAIN ws : ws[i] = f
                           THEN Field(vs[CHOOSE i \in DOMAIN ws : ws[i] = f])
                           ELSE w[f]]

\* the record a category's publisher sent last, given the publications of a tick
Carried(last, out) ==
    [c \in Categories |->
        IF c \in Topics(out)
        THEN out[CHOOSE i \in DOMAIN out :
                    out[i].topic = c /\ \A j \in DOMAIN out : out[j].topic = c => j <= i].msg
        ELSE last[c]]

\* mutant: the pull writes the placeholder value, as the other WIP setters do
set_frsky_controller_connection_status_reset(f) == FrSkyStatus

\* lines 283-284: the pull assigns no field of FrSky_msg (it creates a subscription)
set_frsky_controller_connection_status(f) == f

\* mutant: the snapshots taken before the constructor's pull, from the default messages
update_all_previous_values_before_pull(bat, cam, jet, frsky, wheel, gps, misc) ==
    Snapshot(BatteryStatusMessage, CameraStatuses, JetsonInfo, FrSkyStatus,
             WheelStatuses, GPSInfo, MiscStatuses)

\* line 147: the snapshots the constructor takes after its pull
update_all_previous_values(bat, cam, jet, frsky, wheel, gps, misc) ==
    Snapshot(bat, cam, jet, frsky, wheel, gps, misc)

\* mutant: the publish times start so long ago that the first publish is never held back
initial_message_sent_long_ago(t) == t - IRIS_UPDATE_PERIOD - 1

\* lines 148-149: last_jetson_message_sent and last_iris_message_sent start at time()
initial_message_sent(t) == t

\* ------------------------------------------------ state after __init__
StatusInit ==
    /\ status_alive = TRUE
    /\ manual_update_requested = FALSE
    /\ battery_message = BatteryStatusMessage
    /\ camera_msg = set_cameras(CameraStatuses, InitialHost)
    /\ jetson_msg = set_jetson_temp_failed(set_jetson_usage(JetsonInfo, InitialHost))
    /\ FrSky_msg = FrSkyStatus
    /\ wheel_msg = WheelStatuses
    /\ GPS_msg = GPSInfo
    /\ misc_msg = set_misc_statuses(MiscStatuses)
    /\ previous = update_all_previous_values(battery_message, camera_msg, jetson_msg,
                                             FrSky_msg, wheel_msg, GPS_msg, misc_msg)
    /\ last_jetson_message_sent = initial_message_sent(now)
    /\ last_iris_message_sent = initial_message_sent(now)
    /\ frsky_subscriptions = 1
    /\ status_out = << >>
    /\ delivered = 0
    /\ last_written = [f \in AsyncFields |-> NoneVal]
    /\ last_published = previous

\* ------------------------------------------------ SystemStatuses.main_loop
\* the sensors call fails (CalledProcessError): the pull completes and the gates run
main_loop(host, gap) ==
    /\ status_alive
    /\ frsky_subscriptions < MaxSubscriptions
    /\ now + gap <= MaxTime
    /\ now' = now + gap
    /\ camera_msg' = set_cameras(camera_msg, host)
    /\ jetson_msg' = set_jetson_temp_failed(set_jetson_usage(jetson_msg, host))
    /\ misc_msg' = set_misc_statuses(misc_msg)
    /\ FrSky_msg' = set_frsky_controller_connection_status(FrSky_msg)
    /\ status_out' = Publications(battery_message, camera_msg', jetson_msg', FrSky_msg',
                                  wheel_msg, GPS_msg, misc_msg', previous,
                                  manual_update_requested, now',
                                  last_iris_message_sent, last_jetson_message_sent)
    /\ previous' = set_previous_values(previous,
                      Snapshot(battery_message, camera_msg', jetson_msg', FrSky_msg',
                               wheel_msg, GPS_msg, misc_msg'),
                      status_out')
    /\ last_published' = Carried(last_published, status_out')
    /\ last_iris_message_sent' =
          set_last_sent(last_iris_message_sent, "battery_status", status_out', now')
    /\ last_jetson_message_sent' =
          set_last_sent(last_jetson_message_sent, "jetson_status", status_out', now')
    /\ frsky_subscriptions' = frsky_subscriptions + 1
    /\ manual_update_requested' = clear_manual_update(manual_update_requested)
    /\ op' = "main_loop"
    /\ UNCHANGED iris_vars
    /\ UNCHANGED <<status_alive, battery_message, wheel_msg, GPS_msg, delivered,
                   last_written>>

\* the sensors call succeeds: check_output returns bytes, bytes.replace(str, str)
\* raises TypeError, which nothing catches; the pull stops after the four usage
\* fields, before any gate reads the clock, and the process dies
main_loop_raise(host) ==
    /\ status_alive
    /\ frsky_subscriptions < MaxSubscriptions
    /\ camera_msg' = set_cameras(camera_msg, host)
    /\ jetson_msg' = set_jetson_usage(jetson_msg, host)
    /\ misc_msg' = set_misc_statuses(misc_msg)
    /\ status_out' = << >>
    /\ status_alive' = FALSE
    /\ op' = "main_loop_raise"
    /\ UNCHANGED iris_vars
    /\ UNCHANGED <<now, manual_update_requested, battery_message, FrSky_msg, wheel_msg,
                   GPS_msg, previous, last_iris_message_sent, last_jetson_message_sent,
                   frsky_subscriptions, delivered, last_written, last_published>>

\* ------------------------------------------------ subscription callbacks
\* a message is taken from a subscription and its callback runs
Deliver ==
    /\ status_alive
    /\ delivered < MaxMessages
    /\ delivered' = delivered + 1
    /\ op' = "callback"
    /\ UNCHANGED last_published
    /\ UNCHANGED iris_vars

on_update_requested ==
    /\ Deliver
    /\ manual_update_requested' = TRUE
    /\ UNCHANGED last_written
    /\ UNCHANGED <<now, status_alive, battery_message, camera_msg, jetson_msg, FrSky_msg,
                   wheel_msg, GPS_msg, misc_msg, previous, last_iris_message_sent,
                   last_jetson_message_sent, frsky_subscriptions, status_out>>

iris_status_callback(voltage_24v) ==
    /\ Deliver
    /\ battery_message' = [battery_message EXCEPT !.battery_voltage = voltage_24v]
    /\ last_written' = Written(last_written, <<"battery_voltage">>, <<voltage_24v>>)
    /\ UNCHANGED <<now, status_alive, manual_update_requested, camera_msg, jetson_msg,
                   FrSky_msg, wheel_msg, GPS_msg, misc_msg, previous,
                   last_iris_message_sent, last_jetson_message_sent, frsky_subscriptions,
                   status_out>>

WheelUnchanged ==
    UNCHANGED <<now, status_alive, manual_update_requested, battery_message, camera_msg,
                jetson_msg, FrSky_msg, GPS_msg, misc_msg, previous,
                last_iris_message_sent, last_jetson_message_sent, frsky_subscriptions,
                status_out>>

left_wheel_callback(data) ==
    /\ Deliver
    /\ wheel_msg' = [wheel_msg EXCEPT !.front_left = data.first_motor_connected,
                                      !.middle_left = data.second_motor_connected]
    /\ last_written' = Written(last_written, <<"front_left", "middle_left">>,
                               <<data.first_motor_connected, data.second_motor_connected>>)
    /\ WheelUnchanged

right_wheel_callback(data) ==
    /\ Deliver
    /\ wheel_msg' = [wheel_msg EXCEPT !.front_right = data.first_motor_connected,
                                      !.middle_right = data.second_motor_connected]
    /\ last_written' = Written(last_written, <<"front_right", "middle_right">>,
                               <<data.first_motor_connected, data.second_motor_connected>>)
    /\ WheelUnchanged

rear_wheel_callback(data) ==
    /\ Deliver
    /\ wheel_msg' = [wheel_msg EXCEPT !.rear_left = data.first_motor_connected,
                                      !.rear_right = data.second_motor_connected]
    /\ last_written' = Written(last_written, <<"rear_left", "rear_right">>,
                               <<data.first_motor_connected, data.second_motor_connected>>)
    /\ WheelUnchanged

\* every subscription created so far calls __frsky_callback with the same message
frsky_callback(controller_present) ==
    /\ Deliver
    /\ FrSky_msg' = [FrSky_msg EXCEPT !.frsky_controller_connection_status =
                                          controller_present]
    /\ last_written' = Written(last_written, <<"frsky_controller_connection_status">>,
                               <<controller_present>>)
    /\ UNCHANGED <<now, status_alive, manual_update_requested, battery_message, camera_msg,
                   jetson_msg, wheel_msg, GPS_msg, misc_msg, previous,
                   last_iris_message_sent, last_jetson_message_sent, frsky_subscriptions,
                   status_out>>

\* an exception raised by int()/float() leaves the callback uncaught: the process dies
gps_sentence_callback(data) ==
    /\ Deliver
    /\ GPS_msg' = set_gps_info(GPS_msg, data).msg
    /\ last_written' = Written(last_written, <<"gps_connected">>, <<TRUE>>)
    /\ status_alive' = ~set_gps_info(GPS_msg, data).raised
    /\ UNCHANGED <<now, manual_update_requested, battery_message, camera_msg, jetson_msg,
                   FrSky_msg, wheel_msg, misc_msg, previous, last_iris_message_sent,
                   last_jetson_message_sent, frsky_subscriptions, status_out>>

\* ================================================ IrisController
\* self.registers[i]: a Python list index, valid for 0 <= i < len
HasIndex(regs, i) == i < Len(regs)
GetItem(regs, i) == regs[i + 1]

\* drive_twist.linear.x and drive_twist.angular.z are kept as exact multiples of
\* 1 / TwistScale: the field holds the value times TwistScale
TwistScale == 2 * SBUS_RANGE

\* mutant: the midpoint not subtracted
normalize_without_midpoint(axis) == axis

\* (axis - SBUS_MID) / SBUS_RANGE, as a multiple of 1 / SBUS_RANGE
normalize(axis) == axis - SBUS_MID

\* mutant: the sentinel test left out
drive_command_no_sentinel(regs) ==
    LET left == normalize(GetItem(regs, LEFT_STICK_Y_AXIS))
        right == normalize(GetItem(regs, RIGHT_STICK_Y_AXIS))
    IN [controller_present |-> TRUE,
        ignore_drive_control |-> GetItem(regs, IGNORE_CONTROL) > SBUS_MID,
        linear_x |-> left + right,
        angular_z |-> right - left]

\* mutant: the angular difference taken the other way round
drive_command_swapped(regs) ==
    LET left_y_axis == GetItem(regs, LEFT_STICK_Y_AXIS)
        right_y_axis == GetItem(regs, RIGHT_STICK_Y_AXIS)
    IN IF left_y_axis = 0 /\ right_y_axis = 0
       THEN [controller_present |-> FALSE, ignore_drive_control |-> TRUE,
             linear_x |-> 0, angular_z |-> 0]
       ELSE LET left == normalize(left_y_axis)
                right == normalize(right_y_axis)
            IN [controller_present |-> TRUE,
                ignore_drive_control |-> GetItem(regs, IGNORE_CONTROL) > SBUS_MID,
                linear_x |-> left + right,
                angular_z |-> left - right]

\* lines 149-171: the DriveCommandMessage built from a full vector
drive_command(regs) ==
    LET left_y_axis == GetItem(regs, LEFT_STICK_Y_AXIS)
        right_y_axis == GetItem(regs, RIGHT_STICK_Y_AXIS)
    IN IF left_y_axis = 0 /\ right_y_axis = 0
       THEN [controller_present |-> FALSE, ignore_drive_control |-> TRUE,
             linear_x |-> 0, angular_z |-> 0]
       ELSE LET left == normalize(left_y_axis)
                right == normalize(right_y_axis)
            IN [controller_present |-> TRUE,
                ignore_drive_control |-> GetItem(regs, IGNORE_CONTROL) > SBUS_MID,
                linear_x |-> left + right,
                angular_z |-> right - left]

\* line 148
drive_mode(regs) == GetItem(regs, DRIVE_VS_ARM) < SBUS_MID

\* lines 176-177
arm_mode(regs) == GetItem(regs, DRIVE_VS_ARM) > SBUS_MIN + SBUS_DEADZONE

\* mutant: a vector too short to index is answered with the failsafe command
broadcast_drive_if_current_mode_padded(regs) ==
    IF ~HasIndex(regs, DRIVE_VS_ARM)
    THEN [raised |-> FALSE,
          out |-> <<[controller_present |-> FALSE, ignore_drive_control |-> TRUE,
                     linear_x |-> 0, angular_z |-> 0]>>]
    ELSE IF ~drive_mode(regs) THEN [raised |-> FALSE, out |-> << >>]
    ELSE [raised |-> FALSE, out |-> <<drive_command(regs)>>]

\* broadcast_drive_if_current_mode: the commands published, or an IndexError
broadcast_drive_if_current_mode(regs) ==
    IF ~HasIndex(regs, DRIVE_VS_ARM) THEN [raised |-> TRUE, out |-> << >>]
    ELSE IF ~drive_mode(regs) THEN [raised |-> FALSE, out |-> << >>]
    ELSE IF ~HasIndex(regs, LEFT_STICK_Y_AXIS) \/ ~HasIndex(regs, RIGHT_STICK_Y_AXIS)
         THEN [raised |-> TRUE, out |-> << >>]
    ELSE IF ~(GetItem(regs, LEFT_STICK_Y_AXIS) = 0 /\ GetItem(regs, RIGHT_STICK_Y_AXIS) = 0)
            /\ ~HasIndex(regs, IGNORE_CONTROL)
         THEN [raised |-> TRUE, out |-> << >>]
    ELSE [raised |-> FALSE, out |-> <<drive_command(regs)>>]

\* broadcast_arm_if_current_mode: whether "Arm" is printed, or an IndexError
broadcast_arm_if_current_mode(regs) ==
    IF ~HasIndex(regs, DRIVE_VS_ARM) THEN [raised |-> TRUE, printed |-> FALSE]
    ELSE [raised |-> FALSE, printed |-> arm_mode(regs)]

\* broadcast_iris_status: the status published, or an IndexError
broadcast_iris_status(regs) ==
    IF ~HasIndex(regs, VOLTAGE_24V) THEN [raised |-> TRUE, out |-> << >>]
    ELSE [raised |-> FALSE,
          out |-> <<[iris_connected |-> TRUE, voltage_24v |-> GetItem(regs, VOLTAGE_24V)]>>]

\* lines 126-133: the three broadcasts in order; an exception skips the rest
try_broadcasts(regs) ==
    LET d == broadcast_drive_if_current_mode(regs)
        a == broadcast_arm_if_current_mode(regs)
        st == broadcast_iris_status(regs)
    IN IF d.raised
       THEN [drive |-> << >>, arm |-> FALSE, status |-> << >>, raised |-> TRUE]
       ELSE IF a.raised
       THEN [drive |-> d.out, arm |-> FALSE, status |-> << >>, raised |-> TRUE]
       ELSE IF st.raised
       THEN [drive |-> d.out, arm |-> a.printed, status |-> << >>, raised |-> TRUE]
       ELSE [drive |-> d.out, arm |-> a.printed, status |-> st.out, raised |-> FALSE]

\* mutant: the comparison made inclusive
last_seen_timed_out_inclusive(t, last_seen) == (t - last_seen) >= IRIS_LAST_SEEN_TIMEOUT

\* mutant: the time of the read recorded outside the try block, whether or not
\* the read succeeded
read_registers_stamps_failure(read, regs, last_seen, connected, t) ==
    IF read.ok
    THEN [registers |-> read.regs, iris_last_seen_time |-> t,
          iris_connected |-> connected, raised |-> FALSE]
    ELSE [registers |-> regs, iris_last_seen_time |-> t,
          iris_connected |-> FALSE, raised |-> FALSE]

\* lines 140-145: the fields after read_registers, and whether it raised
read_registers(read, regs, last_seen, connected, t) ==
    IF read.ok
    THEN [registers |-> read.regs, iris_last_seen_time |-> t,
          iris_connected |-> connected, raised |-> FALSE]
    ELSE [registers |-> regs, iris_last_seen_time |-> last_seen,
          iris_connected |-> FALSE, raised |-> FALSE]

\* lines 126-133: an exception of read_registers would skip the broadcasts
try_read_and_broadcasts(r) ==
    IF r.raised
    THEN [drive |-> << >>, arm |-> FALSE, status |-> << >>, raised |-> TRUE]
    ELSE try_broadcasts(r.registers)

\* line 135
last_seen_timed_out(t, last_seen) == (t - last_seen) > IRIS_LAST_SEEN_TIMEOUT

IrisInit ==
    /\ iris_alive = TRUE
    /\ registers = << >>
    /\ iris_connected = FALSE
    /\ iris_last_seen_time = now
    /\ drive_out = << >>
    /\ iris_status_out = << >>
    /\ arm_printed = FALSE
    /\ iris_error = FALSE
    /\ read_result = [ok |-> FALSE, regs |-> << >>]

\* IrisController.main_loop, with read_registers and the three broadcasts
iris_main_loop(read, gap) ==
    /\ iris_alive
    /\ now + gap <= MaxTime
    /\ now' = now + gap
    /\ read_result' = read
    /\ LET r == read_registers(read, registers, iris_last_seen_time, iris_connected, now')
           b == try_read_and_broadcasts(r)
       IN /\ registers' = r.registers
          /\ iris_last_seen_time' = r.iris_last_seen_time
          /\ iris_connected' = r.iris_connected
          /\ drive_out' = b.drive
          /\ arm_printed' = b.arm
          /\ iris_status_out' = b.status
          /\ iris_error' = b.raised
    /\ iris_alive' = ~last_seen_timed_out(now', iris_last_seen_time')
    /\ op' = "iris_main_loop"
    /\ UNCHANGED status_vars

IrisNext == \E read \in ReadResults, gap \in IrisTimerGaps : iris_main_loop(read, gap)



StatusNext ==
    \/ \E host \in HostInputs, gap \in TimerGaps : main_loop(host, gap)
    \/ \E host \in HostInputs : main_loop_raise(host)
    \/ on_update_requested
    \/ \E v \in VoltageInputs : iris_status_callback(v)
    \/ \E d \in LeftStatusInputs : left_wheel_callback(d)
    \/ \E d \in RightStatusInputs : right_wheel_callback(d)
    \/ \E d \in RearStatusInputs : rear_wheel_callback(d)
    \/ \E b \in ControllerInputs : frsky_callback(b)
    \/ \E s \in GpsSentences : gps_sentence_callback(s)

vars == <<now, op, status_vars, iris_vars>>

Init == now = 0 /\ op = "init" /\ StatusInit /\ IrisInit

\* the status node and its environment
Spec == Init /\ [][StatusNext]_vars

\* the timer of the status node fires again and again: a tick that can run does run
Tick == \E host \in HostInputs, gap \in TimerGaps : main_loop(host, gap)
SpecFair == Init /\ [][StatusNext]_vars /\ WF_vars(Tick)

\* the iris node and its environment
SpecIris == Init /\ [][IrisNext]_vars

\* ================================================ properties
\* the seven records as one run of the gates reads them
Records == Snapshot(battery_message, camera_msg, jetson_msg, FrSky_msg, wheel_msg,
                    GPS_msg, misc_msg)

Ceilinged == {"battery_status", "jetson_status"}
Unceilinged == Categories \ Ceilinged

LastSent(c) == IF c = "battery_status" THEN last_iris_message_sent
               ELSE last_jetson_message_sent

Published(c) == c \in Topics(status_out)

\* a step in which SystemStatuses.main_loop ran to its end
CompletedTick == op' = "main_loop"

\* C1: in every completed tick, each category without a rate ceiling is published
\* if and only if its refreshed record differs from its snapshot or the
\* manual-refresh flag is set.
C1_UnceilingedPublishedIffChangedOrManual ==
    [][CompletedTick =>
         \A c \in Unceilinged :
            Published(c)' <=> (Records'[c] # previous[c] \/ manual_update_requested)]_vars

\* C2 as stated: a ceilinged category is published iff (changed or manual) and
\* now - last_published_time >= 5; when not published, snapshot and time are kept.
C2_CeilingedPublishedIffElapsedAtLeast ==
    [][CompletedTick =>
         \A c \in Ceilinged :
            /\ Published(c)' <=>
                  /\ Records'[c] # previous[c] \/ manual_update_requested
                  /\ now' - LastSent(c) >= IRIS_UPDATE_PERIOD
            /\ ~Published(c)' =>
                  previous'[c] = previous[c] /\ LastSent(c)' = LastSent(c)]_vars

\* C2 amended: a ceilinged category is published iff (changed or manual) and
\* now - last_published_time > 5 (strictly); when not published, snapshot and
\* time are kept.
C2_CeilingedPublishedIffElapsedMoreThan ==
    [][CompletedTick =>
         \A c \in Ceilinged :
            /\ Published(c)' <=>
                  /\ Records'[c] # previous[c] \/ manual_update_requested
                  /\ now' - LastSent(c) > IRIS_UPDATE_PERIOD
            /\ ~Published(c)' =>
                  previous'[c] = previous[c] /\ LastSent(c)' = LastSent(c)]_vars

\* a tick published jetson metrics and held back a battery voltage that differs
\* from its snapshot
C2_Witness ==
    /\ op = "main_loop"
    /\ Published("jetson_status")
    /\ ~Published("battery_status")
    /\ battery_message # previous.battery_status
    /\ last_iris_message_sent > 0

\* C3 as stated: a ceilinged category is never published less than 5 seconds
\* after its last publish, and once 5 seconds have elapsed a record that still
\* differs from the snapshot is published at the next tick.
C3_RateCeilingWindowAtLeast ==
    [][CompletedTick =>
         \A c \in Ceilinged :
            /\ Published(c)' => now' - LastSent(c) >= IRIS_UPDATE_PERIOD
            /\ (now' - LastSent(c) >= IRIS_UPDATE_PERIOD /\ Records'[c] # previous[c])
                  => Published(c)']_vars

\* C3 amended: a ceilinged category is published only more than 5 seconds
\* after its last publish, and once more than 5 seconds have elapsed a record
\* that still differs from the snapshot is published at the next tick.
C3_RateCeilingWindowMoreThan ==
    [][CompletedTick =>
         \A c \in Ceilinged :
            /\ Published(c)' => now' - LastSent(c) > IRIS_UPDATE_PERIOD
            /\ (now' - LastSent(c) > IRIS_UPDATE_PERIOD /\ Records'[c] # previous[c])
                  => Published(c)']_vars

\* jetson metrics were published, changed again within the window, and the tick
\* inside the window held them back
C3_Witness ==
    /\ op = "main_loop"
    /\ last_jetson_message_sent > 0
    /\ now - last_jetson_message_sent < JETSON_UPDATE_PERIOD
    /\ now > last_jetson_message_sent
    /\ jetson_msg # previous.jetson_status
    /\ ~Published("jetson_status")

\* C4: a tick that finds the manual-refresh flag set and every record equal to
\* its snapshot publishes every category exactly once and clears the flag; a
\* tick that finds the flag clear and every record equal to its snapshot
\* publishes nothing.
C4_ManualRefreshPublishesEveryCategoryOnce ==
    [][CompletedTick =>
         /\ (manual_update_requested /\ Records' = previous) =>
               /\ \A c \in Categories : Count(status_out', c) = 1
               /\ ~manual_update_requested'
         /\ (~manual_update_requested /\ Records' = previous) =>
               status_out' = << >>]_vars

\* C5 as stated: without a pending refresh a category whose record equals its
\* snapshot is not published; a publish makes the record the snapshot; and a
\* tick that finds any field different from the snapshot publishes the category.
C5_PublishedOncePerChange ==
    [][CompletedTick =>
         \A c \in Categories :
            /\ (~manual_update_requested /\ Records'[c] = previous[c]) => ~Published(c)'
            /\ Published(c)' => previous'[c] = Records'[c]
            /\ Records'[c] # previous[c] => Published(c)']_vars

\* C5 amended: as C5, but a tick that finds a field different from the snapshot
\* publishes a ceilinged category only when more than 5 seconds have elapsed
\* since its last publish.
C5_PublishedOncePerChangeUnlessCeiling ==
    [][CompletedTick =>
         \A c \in Categories :
            /\ (~manual_update_requested /\ Records'[c] = previous[c]) => ~Published(c)'
            /\ Published(c)' => previous'[c] = Records'[c]
            /\ (/\ Records'[c] # previous[c]
                /\ c \in Ceilinged => now' - LastSent(c) > IRIS_UPDATE_PERIOD)
                  => Published(c)']_vars

\* the wheel record was published by the first tick and the second tick, finding
\* nothing changed, published nothing
C5_Witness ==
    /\ op = "main_loop"
    /\ frsky_subscriptions = 3
    /\ status_out = << >>
    /\ previous.wheel_status # WheelStatuses
    /\ previous.wheel_status = wheel_msg

\* ------------------------------------------------ properties of the iris node
FullVector == Len(registers) = NUM_REGISTERS

\* C6: after every tick of the iris node the node is destroyed if and only if
\* the time since the last successful read exceeds IRIS_LAST_SEEN_TIMEOUT, and
\* once destroyed nothing of the node changes again (no tick, no publish).
C6_HardDisconnectTerminates ==
    [][/\ iris_alive' <=> (now' - iris_last_seen_time' <= IRIS_LAST_SEEN_TIMEOUT)
       /\ ~iris_alive => UNCHANGED iris_vars]_vars

\* a tick whose read failed found the timeout exceeded and destroyed the node
C6_Witness ==
    /\ op = "iris_main_loop"
    /\ ~iris_alive
    /\ now - iris_last_seen_time > IRIS_LAST_SEEN_TIMEOUT

\* C7: with a full vector whose two drive axes are both 0, every command
\* published by the tick is the failsafe command, whatever the other registers.
C7_SentinelGivesFailsafeCommand ==
    (/\ op = "iris_main_loop"
     /\ FullVector
     /\ GetItem(registers, LEFT_STICK_Y_AXIS) = 0
     /\ GetItem(registers, RIGHT_STICK_Y_AXIS) = 0)
    => \A i \in DOMAIN drive_out :
          /\ drive_out[i].controller_present = FALSE
          /\ drive_out[i].ignore_drive_control = TRUE
          /\ drive_out[i].linear_x = 0
          /\ drive_out[i].angular_z = 0

\* the failsafe command was published although the ignore-control switch is not
\* above the midpoint and the other registers are not 0
C7_Witness ==
    /\ op = "iris_main_loop"
    /\ FullVector
    /\ Len(drive_out) = 1
    /\ GetItem(registers, LEFT_STICK_Y_AXIS) = 0
    /\ GetItem(registers, RIGHT_STICK_Y_AXIS) = 0
    /\ GetItem(registers, IGNORE_CONTROL) <= SBUS_MID
    /\ GetItem(registers, DRIVE_VS_ARM) # 0

\* C8: in drive mode with the two drive axes not both 0 exactly one command is
\* published, with controller_present, ignore_drive_control = (switch > 991),
\* linear = (norm(l) + norm(r)) / 2 and angular = (norm(r) - norm(l)) / 2 for
\* norm(v) = (v - 991) / 820; in whole numbers, 1640 * linear = l + r - 1982 and
\* 1640 * angular = r - l. norm(991) = 0, norm(1811) = 1, norm(171) = -1, and
\* l = 1811, r = 991 gives linear = 1/2, angular = -1/2.
C8_DifferentialDriveMix ==
    /\ normalize(991) = 0
    /\ normalize(1811) = SBUS_RANGE
    /\ normalize(171) = -SBUS_RANGE
    /\ (/\ op = "iris_main_loop"
        /\ FullVector
        /\ GetItem(registers, DRIVE_VS_ARM) < 991
        /\ ~(GetItem(registers, LEFT_STICK_Y_AXIS) = 0
             /\ GetItem(registers, RIGHT_STICK_Y_AXIS) = 0))
       => LET l == GetItem(registers, LEFT_STICK_Y_AXIS)
              r == GetItem(registers, RIGHT_STICK_Y_AXIS)
          IN /\ Len(drive_out) = 1
             /\ drive_out[1].controller_present = TRUE
             /\ drive_out[1].ignore_drive_control = (GetItem(registers, IGNORE_CONTROL) > 991)
             /\ TwistScale = 1640
             /\ drive_out[1].linear_x = l + r - 1982
             /\ drive_out[1].angular_z = r - l
             /\ (l = 1811 /\ r = 991) =>
                   /\ 2 * drive_out[1].linear_x = TwistScale
                   /\ 2 * drive_out[1].angular_z = -TwistScale

\* the command for l = 1811, r = 991 was published
C8_Witness ==
    /\ op = "iris_main_loop"
    /\ FullVector
    /\ GetItem(registers, LEFT_STICK_Y_AXIS) = 1811
    /\ GetItem(registers, RIGHT_STICK_Y_AXIS) = 991
    /\ Len(drive_out) = 1
    /\ drive_out[1].controller_present
    /\ 2 * drive_out[1].linear_x = TwistScale

\* C9: with a full vector the drive branch fires iff the drive-vs-arm register
\* is below 991, the arm branch fires iff it is above 991 + 5, and the two
\* branches never fire in the same tick.
C9_ModeBranchesExclusive ==
    (op = "iris_main_loop" /\ FullVector /\ ~iris_error)
    => /\ (drive_out # << >>) <=> (GetItem(registers, DRIVE_VS_ARM) < SBUS_MID)
       /\ arm_printed <=> (GetItem(registers, DRIVE_VS_ARM) > SBUS_MID + SBUS_DEADZONE)
       /\ ~(drive_out # << >> /\ arm_printed)

\* C10: a tick that holds fewer than 20 registers publishes neither a drive
\* command nor an iris status.
C10_ShortVectorPublishesNothing ==
    (op = "iris_main_loop" /\ Len(registers) < NUM_REGISTERS)
    => (drive_out = << >> /\ iris_status_out = << >>)

\* a tick ran on the empty vector held since construction and its broadcast raised
C10_Witness ==
    /\ op = "iris_main_loop"
    /\ registers = << >>
    /\ iris_error
    /\ iris_alive

\* C11: a successful read sets iris_last_seen_time to the time of the tick and
\* replaces the held vector by the one read; a failed read leaves both as they
\* were and raises nothing: with a full vector held, the tick goes on to its
\* broadcasts and catches no exception.
C11_ReadUpdatesOnSuccessSwallowsFailure ==
    [][op' = "iris_main_loop" =>
         /\ read_result'.ok =>
               (iris_last_seen_time' = now' /\ registers' = read_result'.regs)
         /\ ~read_result'.ok =>
               /\ iris_last_seen_time' = iris_last_seen_time
               /\ registers' = registers
               /\ Len(registers) = NUM_REGISTERS =>
                     (~iris_error' /\ iris_status_out' # << >>)]_vars

\* a read failed after an earlier one had succeeded, and the tick went on
C11_Witness ==
    /\ op = "iris_main_loop"
    /\ ~read_result.ok
    /\ FullVector
    /\ iris_last_seen_time > 0
    /\ iris_last_seen_time < now
    /\ ~iris_error

\* C12: after every tick the connectivity field of the node is true exactly
\* when the time since the last successful read is at most the timeout, and
\* every iris status published by the tick carries that same connectivity: none
\* says iris_connected = true while the channel is not connected.
C12_ConnectivityMatchesLastSeen ==
    op = "iris_main_loop" =>
        LET is_connected == (now - iris_last_seen_time) <= IRIS_LAST_SEEN_TIMEOUT
        IN /\ iris_connected <=> is_connected
           /\ \A i \in DOMAIN iris_status_out :
                 iris_status_out[i].iris_connected <=> is_connected

\* C13: a tick of the status node in which a stage raises an unexpected
\* exception publishes nothing more but leaves the node alive, so that the next
\* scheduled tick can run.
C13_StatusTickSurvivesException ==
    [][op' = "main_loop_raise" => (status_out' = << >> /\ status_alive')]_vars

\* C14: the pull of a tick changes nothing but records: the number of
\* subscriptions registered on the node is the same after the tick as before,
\* and pulling twice from the same host leaves the records as pulling once.
C14_PullIsIdempotent ==
    [][CompletedTick =>
         /\ frsky_subscriptions' = frsky_subscriptions
         /\ \A host \in HostInputs :
               /\ set_cameras(set_cameras(camera_msg, host), host)
                     = set_cameras(camera_msg, host)
               /\ set_jetson_usage(set_jetson_usage(jetson_msg, host), host)
                     = set_jetson_usage(jetson_msg, host)
               /\ set_misc_statuses(set_misc_statuses(misc_msg))
                     = set_misc_statuses(misc_msg)]_vars

\* C20: a tick of the iris node whose read failed publishes neither a drive
\* command nor an iris status.
C20_FailedReadPublishesNothing ==
    (op = "iris_main_loop" /\ ~read_result.ok) =>
        (drive_out = << >> /\ iris_status_out = << >>)

\* the value a field written by callbacks holds now
AsyncValue(f) ==
    CASE f = "battery_voltage" -> battery_message.battery_voltage
      [] f = "frsky_controller_connection_status" ->
            FrSky_msg.frsky_controller_connection_status
      [] f = "gps_connected" -> GPS_msg.gps_connected
      [] OTHER -> wheel_msg[f]

\* the categories whose records callbacks write
AsyncCategories == {"battery_status", "frsky_status", "wheel_status", "gps_status"}

\* C15: whatever the interleaving of callbacks and ticks, every field a callback
\* has written holds the value the latest callback wrote to it; a tick leaves the
\* records of the callback-written categories as the callbacks left them, and
\* every message of such a category it publishes carries that record.
C15_LastWriterWins ==
    [][/\ \A f \in AsyncFields :
             last_written'[f] # NoneVal => AsyncValue(f)' = last_written'[f][1]
       /\ CompletedTick =>
             \A c \in AsyncCategories :
                /\ Records'[c] = Records[c]
                /\ \A i \in DOMAIN status_out' :
                      status_out'[i].topic = c => status_out'[i].msg = Records[c]]_vars

\* a tick ran after two callbacks had written the voltage and published the
\* voltage written last
C15_Witness ==
    /\ op = "main_loop"
    /\ delivered = 2
    /\ last_written["battery_voltage"] = Field(24)
    /\ \A f \in AsyncFields \ {"battery_voltage"} : last_written[f] = NoneVal
    /\ Topics(status_out) = {"battery_status"}
    /\ \E i \in DOMAIN status_out : status_out[i].msg = [battery_voltage |-> 24]

\* the categories whose record differs after a step
ChangedRecords == { c \in Categories : Records'[c] # Records[c] }

\* the wheel fields that differ after a step
ChangedWheels == { f \in DOMAIN wheel_msg : wheel_msg'[f] # wheel_msg[f] }

\* the fields each bogie's callback owns
Axles == { {"front_left", "middle_left"}, {"front_right", "middle_right"},
           {"rear_left", "rear_right"} }

\* C16: a callback changes the record of at most one category (a wheel callback
\* only the two fields of one axle) and no snapshot or publish time; a tick
\* changes only the records the pull computes, and a category it does not publish
\* keeps its snapshot and its publish time, whatever else the tick publishes.
C16_CategoriesNotCoupled ==
    [][/\ op' = "callback" =>
             /\ Cardinality(ChangedRecords) <= 1
             /\ \E a \in Axles : ChangedWheels \subseteq a
             /\ previous' = previous
             /\ last_iris_message_sent' = last_iris_message_sent
             /\ last_jetson_message_sent' = last_jetson_message_sent
       /\ CompletedTick =>
             /\ ChangedRecords \subseteq {"camera_status", "jetson_status", "misc_status"}
             /\ \A c \in Categories :
                   ~Published(c)' =>
                      /\ previous'[c] = previous[c]
                      /\ c \in Ceilinged => LastSent(c)' = LastSent(c)]_vars

\* a tick published the wheel record alone: the two fields the left bogie's
\* callback wrote, with every other snapshot and both publish times as they were
C16_Witness ==
    /\ op = "main_loop"
    /\ Topics(status_out) = {"wheel_status"}
    /\ wheel_msg = [WheelStatuses EXCEPT !.front_left = TRUE]
    /\ previous.wheel_status = wheel_msg
    /\ previous.battery_status = BatteryStatusMessage
    /\ last_iris_message_sent = 0
    /\ last_jetson_message_sent = 0

\* C17: after every step the snapshot of every category is the record carried
\* by the latest publish of that category (the record computed at construction
\* if there was none), and a step that changes a category's snapshot, or the
\* publish time of a ceilinged category, is a tick that publishes that category.
C17_SnapshotIsLastPublished ==
    [][/\ previous' = last_published'
       /\ \A c \in Categories :
             (\/ previous'[c] # previous[c]
              \/ (c \in Ceilinged /\ LastSent(c)' # LastSent(c)))
             => (CompletedTick /\ Published(c)')]_vars

\* the jetson record was published, changed again, and was held back by the
\* ceiling: the snapshot is still the published record
C17_Witness ==
    /\ op = "main_loop"
    /\ previous.jetson_status.jetson_nvme_ssd = 2
    /\ jetson_msg.jetson_nvme_ssd = 1
    /\ ~Published("jetson_status")
    /\ last_published.jetson_status = previous.jetson_status

\* C18: after construction every snapshot equals its record, and a first tick
\* that runs before any callback and finds no record changed publishes nothing,
\* however long after construction it runs.
C18_FirstTickPublishesNothing ==
    [][op = "init" =>
         /\ previous = Records
         /\ (CompletedTick /\ Records' = Records) => status_out' = << >>]_vars

\* the first tick ran more than 5 seconds after construction, found nothing
\* changed and published nothing
C18_Witness ==
    /\ op = "main_loop"
    /\ frsky_subscriptions = 2
    /\ delivered = 0
    /\ now > IRIS_UPDATE_PERIOD
    /\ Records = previous
    /\ status_out = << >>

\* the longest time between two timer callbacks
MaxGap == CHOOSE g \in TimerGaps : \A h \in TimerGaps : h <= g

\* a category's record differs from its snapshot and the rate ceiling, if it has
\* one, cannot hold it back at the next tick (time advances between ticks)
Due(c) ==
    /\ Records[c] # previous[c]
    /\ c \in Ceilinged => now - LastSent(c) >= IRIS_UPDATE_PERIOD

\* the node is running and another tick lies within the horizon explored
TickAhead ==
    /\ status_alive
    /\ frsky_subscriptions < MaxSubscriptions
    /\ now + MaxGap <= MaxTime

\* C19: with the timer firing again and again, a category whose record differs
\* from its snapshot (and, if ceilinged, is outside its window) is eventually
\* published with the value it then holds, unless the record returns to the
\* snapshot value first: eventually the snapshot equals the record.
C19_EventuallyPublished ==
    \A c \in Categories : (Due(c) /\ TickAhead) ~> (Records[c] = previous[c])

\* a sentence that pynmea2.parse rejects
Malformed == [parse |-> "error"]

\* C21 as stated: the callback of a sentence that does not parse raises nothing
\* and leaves every field of the GPS record as it was, and a tick that finds the
\* GPS record equal to its snapshot does not publish it.
C21_MalformedSentenceChangesNothing ==
    [][/\ gps_sentence_callback(Malformed) => (status_alive' /\ GPS_msg' = GPS_msg)
       /\ (CompletedTick /\ GPS_msg = previous.gps_status) =>
             ~Published("gps_status")']_vars

\* C21 amended: the callback of a sentence that does not parse raises nothing
\* and leaves fix, satellite count, HDOP, speed and heading as they were, but
\* sets gps_connected; the next tick publishes the GPS record exactly when it
\* differs from its snapshot, which a malformed sentence alone brings about only
\* when gps_connected was false before it.
C21_MalformedSentenceOnlyConnects ==
    [][/\ gps_sentence_callback(Malformed) =>
             /\ status_alive'
             /\ GPS_msg' = [GPS_msg EXCEPT !.gps_connected = TRUE]
       /\ CompletedTick =>
             (Published("gps_status")' <=> GPS_msg # previous.gps_status)]_vars

\* a tick published a GPS record that differs from the default record in
\* gps_connected alone: only a malformed sentence had arrived
C21_Witness ==
    /\ op = "main_loop"
    /\ Published("gps_status")
    /\ GPS_msg = [GPSInfo EXCEPT !.gps_connected = TRUE]
    /\ previous.gps_status = GPS_msg

\* C22: the node starts at time 0; a tick that runs within the first 5 seconds
\* publishes neither the battery nor the jetson record, whatever changed and
\* whether or not a refresh was requested, and leaves the refresh flag cleared.
C22_NoCeilingedPublishInFirstWindow ==
    [][(CompletedTick /\ now' <= IRIS_UPDATE_PERIOD) =>
          /\ ~Published("battery_status")'
          /\ ~Published("jetson_status")'
          /\ ~manual_update_requested']_vars

\* the first tick ran within 5 seconds with a changed voltage and a refresh
\* requested (the unchanged camera record was published): it published neither
\* ceilinged record and cleared the flag
C22_Witness ==
    /\ op = "main_loop"
    /\ frsky_subscriptions = 2
    /\ now <= IRIS_UPDATE_PERIOD
    /\ battery_message # previous.battery_status
    /\ camera_msg = set_cameras(CameraStatuses, InitialHost)
    /\ Published("camera_status")
    /\ ~Published("battery_status")
    /\ ~Published("jetson_status")
    /\ ~manual_update_requested

\* C23: once a GPS sentence has been received gps_connected is true, no step
\* of the node sets it back to false, and every GPS status published carries
\* gps_connected = true.
C23_GpsConnectedMonotone ==
    [][/\ GPS_msg.gps_connected => GPS_msg'.gps_connected
       /\ last_written'["gps_connected"] # NoneVal => GPS_msg'.gps_connected
       /\ \A i \in DOMAIN status_out' :
             status_out'[i].topic = "gps_status" => status_out'[i].msg.gps_connected]_vars

\* two GPS sentences were received, a VTG sentence among them, and the tick
\* after them published the GPS record as connected
C23_Witness ==
    /\ op = "main_loop"
    /\ delivered = 2
    /\ Published("gps_status")
    /\ GPS_msg = [GPSInfo EXCEPT !.gps_connected = TRUE, !.gps_heading = HEADING_UNKNOWN]
    /\ \A f \in AsyncFields \ {"gps_connected"} : last_written[f] = NoneVal
    /\ Topics(status_out) = {"gps_status"}

\* an axis reading inside the calibrated range
Calibrated(axis) == SBUS_MIN <= axis /\ axis <= SBUS_MAX

\* C24: with both drive axes of the held vector in [SBUS_MIN, SBUS_MAX], every
\* drive command published has linear and angular in [-1, 1]: in whole numbers,
\* the fields lie between -TwistScale and TwistScale.
C24_TwistWithinUnitRange ==
    (/\ op = "iris_main_loop"
     /\ FullVector
     /\ Calibrated(GetItem(registers, LEFT_STICK_Y_AXIS))
     /\ Calibrated(GetItem(registers, RIGHT_STICK_Y_AXIS)))
    => \A i \in DOMAIN drive_out :
          /\ -TwistScale <= drive_out[i].linear_x
          /\ drive_out[i].linear_x <= TwistScale
          /\ -TwistScale <= drive_out[i].angular_z
          /\ drive_out[i].angular_z <= TwistScale

\* both axes at SBUS_MAX: the command published has linear = 1, the bound
C24_Witness ==
    /\ op = "iris_main_loop"
    /\ FullVector
    /\ GetItem(registers, LEFT_STICK_Y_AXIS) = SBUS_MAX
    /\ GetItem(registers, RIGHT_STICK_Y_AXIS) = SBUS_MAX
    /\ Len(drive_out) = 1
    /\ drive_out[1].linear_x = TwistScale
====
